---- MODULE Spec2Model ----
(***************************************************************************)
(* A model of the two Streamlit chat scripts of the repository:            *)
(*   text-to-sql.py  the Responses-API app (main, call_model, ...)         *)
(*   app.py          the older Assistants-API app (module-level script)    *)
(*                                                                         *)
(* Streamlit executes the script from the top on every user interaction.   *)
(* One execution is a "run".  A run of text-to-sql.py that processes a     *)
(* prompt is modelled in three steps, so that the transcript can be        *)
(* observed between its two appends:                                       *)
(*   PromptRun      lines 135-170  (appends the user message)              *)
(*   CallModelStep  lines 172-199  (the try/except around call_model)      *)
(*   AppendAssistant lines 201-205 (appends the assistant message)         *)
(* pc = "idle" is the handler at rest, between runs.                       *)
(*                                                                         *)
(* Strings are ASCII here: the warning sign U+26A0 that opens the three    *)
(* placeholder texts of the source is written "(!)".                       *)
(* st.session_state.run_count (lines 150-154) is only printed and is not   *)
(* part of the model.                                                      *)
(***************************************************************************)
EXTENDS Integers, Sequences, FiniteSets, TLC

VARIABLES
    script,            \* which of the two scripts this session runs
    env,               \* os.environ["OPENAI_API_KEY"], None when unset
    secrets,           \* st.secrets["OPENAI_API_KEY"], None when not in st.secrets
    system_prompt,     \* resolve_system_prompt("")
    vector_store_ids,  \* resolve_vector_store_ids()
    session_keys,      \* the keys present in st.session_state
    messages,          \* st.session_state.messages of text-to-sql.py (<<>> while absent)
    pc,                \* position of the script
    trigger,           \* the widget interaction that started the latest run
    remote,            \* how the remote service answers a call of the latest run
    before,            \* the transcript when the latest run started
    prior_messages,    \* main's local prior_messages of the latest exchange
    conversation,      \* call_model's local conversation of the latest exchange
    sent,              \* the requests handed to client.responses.create in the latest run
    exc,               \* <<str(exc)>> when the try block of the latest run raised, else <<>>
    answer,            \* main's local answer
    api_calls,         \* the OpenAI client operations of the latest run
    shown_error,       \* the st.error text of the latest run, None if none
    escaped,           \* an exception left the script in the latest run
    thread_id,         \* st.session_state.thread_id of app.py, None while absent
    app_messages       \* st.session_state.messages of app.py

vars == <<script, env, secrets, system_prompt, vector_store_ids, session_keys,
          messages, pc, trigger, remote, before, prior_messages, conversation,
          sent, exc, answer, api_calls, shown_error, escaped, thread_id,
          app_messages>>

----------------------------------------------------------------------------
(* Bounds of the model *)

\* a session of text-to-sql.py takes a prompt only while its transcript holds
\* fewer than this many exchanges
MaxExchanges == 5

\* the same for a session of app.py
MaxAppExchanges == 2

----------------------------------------------------------------------------
(* Python values *)

\* Python's None, for the string-valued names of the scripts
None == "None"

\* truth value of an optional string: None and "" are falsy
Truthy(v) == v # None /\ v # ""

Max(a, b) == IF a >= b THEN a ELSE b

Min(a, b) == IF a <= b THEN a ELSE b

\* s[:-1]
DropLast(s) == SubSeq(s, 1, Len(s) - 1)

\* s[-n:] for n > 0
LastN(s, n) == SubSeq(s, Max(1, Len(s) - n + 1), Len(s))

----------------------------------------------------------------------------
(* The inputs the model draws from *)

Prompts == {"top 5 customers", "fix my join"}

\* <<os.getenv("OPENAI_API_KEY"), st.secrets entry>>: the four settings with
\* no usable key, and the key taken from the environment, from the secrets
\* after an empty environment value, and from the environment over the secrets
KeyConfigs ==
    {<<None, None>>, <<"", None>>, <<None, "">>, <<"", "">>,
     <<"sk-env", None>>, <<"", "sk-secrets">>, <<"sk-env", "sk-secrets">>}

SystemPrompts == {"", "You write SQL."}

VectorStoreConfigs == {<<>>, <<"vs_1", "vs_2">>}

\* what client.responses.create does when it is called: it returns a response
\* whose output_text is a text, "" or None, a response without output_text,
\* or it raises
RemoteOutcomes ==
    {[kind |-> "text", text |-> "SELECT 1"],
     [kind |-> "text", text |-> ""],
     [kind |-> "missing", text |-> None],
     [kind |-> "raise", text |-> "Connection error."]}

\* what the Assistants API does for one exchange of app.py
AppOutcomes ==
    {[kind |-> "completed", text |-> "SELECT 1"],
     [kind |-> "failed", text |-> None],
     [kind |-> "raise", text |-> "Connection error."]}

NoRemote == [kind |-> "none", text |-> None]

NoTrigger == [kind |-> "none", prompt |-> None]

Triggers ==
    {NoTrigger, [kind |-> "reset", prompt |-> None]}
        \cup {[kind |-> "prompt", prompt |-> p] : p \in Prompts}

----------------------------------------------------------------------------
(* text-to-sql.py: helpers *)

MissingKeyError ==
    "Missing OPENAI_API_KEY. Set it in the environment or Streamlit secrets."

ErrorPrefix == "(!) Error calling OpenAI: "

NoResponse == "(!) No response received, please try again."

RetrievalHint ==
    "If needed, briefly use file_search to confirm column names/units, then write one SQL."

\* str() of the UnboundLocalError that reading the unassigned local raises
UnboundToolsError ==
    "cannot access local variable 'tools' where it is not associated with a value"

model_name == "gpt-4o-mini"

context_window == 6

max_output_tokens == 300

Message(role, content) == [role |-> role, content |-> content]

Block(role, type, text) ==
    [role |-> role, content |-> <<[type |-> type, text |-> text]>>]

\* the key the run works with, and whether st.stop() ended the run
resolve_openai_api_key_NoStop(e, s) ==
    LET api_key == IF ~Truthy(e) /\ s # None THEN s ELSE e
    IN  [key |-> api_key, stopped |-> FALSE]

resolve_openai_api_key(e, s) ==
    LET api_key == IF ~Truthy(e) /\ s # None THEN s ELSE e
    IN  [key |-> api_key, stopped |-> ~Truthy(api_key)]

\* if "messages" not in st.session_state: st.session_state.messages = []
init_messages_Always(keys, msgs) == <<>>

init_messages(keys, msgs) == IF "messages" \in keys THEN msgs ELSE <<>>

format_history_AllInput(ms) ==
    [i \in 1..Len(ms) |-> Block(ms[i].role, "input_text", ms[i].content)]

format_history(ms) ==
    [i \in 1..Len(ms) |->
        Block(ms[i].role,
              IF ms[i].role = "assistant" THEN "output_text" ELSE "input_text",
              ms[i].content)]

\* st.session_state.messages[:-1][-context_window:]
window_IncludesNewest(msgs) == LastN(msgs, context_window)

window_Odd(msgs) == LastN(DropLast(msgs), context_window - 1)

window(msgs) == LastN(DropLast(msgs), context_window)

\* call_model's conversation, lines 82-115
build_conversation(sp, history, prompt, vs) ==
    (IF Truthy(sp) THEN <<Block("system", "input_text", sp)>> ELSE <<>>)
        \o format_history(history)
        \o <<Block("user", "input_text", prompt)>>
        \o (IF vs # <<>> THEN <<Block("user", "input_text", RetrievalHint)>>
            ELSE <<>>)

\* the local name tools after lines 109-116: bound to a one-element list when
\* there are vector stores, unbound otherwise (tool_resources is never read)
tools_bound(vs) == vs # <<>>

tools_value(vs) == <<[type |-> "file_search", vector_store_ids |-> vs]>>

\* response_kwargs, lines 120-125; "tools": tools or None
response_kwargs(conv, tools) ==
    IF tools # <<>>
    THEN [model |-> model_name, input |-> conv,
          max_output_tokens |-> max_output_tokens, tools |-> tools]
    ELSE [model |-> model_name, input |-> conv,
          max_output_tokens |-> max_output_tokens]

\* getattr(response, "output_text", "")
output_text(r) == IF r.kind = "missing" THEN "" ELSE r.text

\* call_model as a whole: the conversation it built, the requests it handed
\* to the client, and either the answer it returned or the exception it raised
call_model(history, prompt, sp, vs, r) ==
    LET conv == build_conversation(sp, history, prompt, vs)
    IN  IF ~tools_bound(vs)
        THEN [conversation |-> conv, sent |-> <<>>,
              exc |-> <<UnboundToolsError>>, answer |-> None]
        ELSE LET kwargs == response_kwargs(conv, tools_value(vs))
             IN  IF r.kind = "raise"
                 THEN [conversation |-> conv, sent |-> <<kwargs>>,
                       exc |-> <<r.text>>, answer |-> None]
                 ELSE [conversation |-> conv, sent |-> <<kwargs>>,
                       exc |-> <<>>, answer |-> output_text(r)]

\* except Exception as exc: answer = f"... {exc}"
error_answer_Blank(e) == ""

error_answer(e) == ErrorPrefix \o e

\* if not answer: answer = "... No response received ..."
final_answer_NoPlaceholder(a) == a

final_answer(a) == IF ~Truthy(a) THEN NoResponse ELSE a

----------------------------------------------------------------------------
(* Initial state: a fresh browser session of one of the two scripts *)

Init ==
    /\ script \in {"text-to-sql", "app"}
    /\ \E k \in KeyConfigs : env = k[1] /\ secrets = k[2]
    /\ system_prompt \in SystemPrompts
    /\ vector_store_ids \in VectorStoreConfigs
    /\ (script = "app" => system_prompt = "" /\ vector_store_ids = <<>>)
    /\ session_keys = {}
    /\ messages = <<>>
    /\ pc = "idle"
    /\ trigger = NoTrigger
    /\ remote = NoRemote
    /\ before = <<>>
    /\ prior_messages = <<>>
    /\ conversation = <<>>
    /\ sent = <<>>
    /\ exc = <<>>
    /\ answer = None
    /\ api_calls = {}
    /\ shown_error = None
    /\ escaped = FALSE
    /\ thread_id = None
    /\ app_messages = <<>>

config == <<script, env, secrets, system_prompt, vector_store_ids>>

app_state == <<thread_id, app_messages>>

\* a run starts: the locals and the displays of the previous run are gone
StartRun(tr, r, msgs) ==
    /\ trigger' = tr
    /\ remote' = r
    /\ before' = msgs
    /\ prior_messages' = <<>>
    /\ conversation' = <<>>
    /\ sent' = <<>>
    /\ exc' = <<>>
    /\ answer' = None
    /\ escaped' = FALSE

----------------------------------------------------------------------------
(* text-to-sql.py: the runs of main *)

\* lines 136, 8-16: no key; st.error, then st.stop() ends the run
Halt ==
    /\ script = "text-to-sql"
    /\ pc = "idle"
    /\ resolve_openai_api_key(env, secrets).stopped
    /\ \E tr \in Triggers : StartRun(tr, NoRemote, messages)
    /\ shown_error' = MissingKeyError
    /\ api_calls' = {}
    /\ pc' = "idle"
    /\ UNCHANGED <<config, session_keys, messages, app_state>>

\* lines 135-168 with no button pressed and no prompt submitted
PlainRun ==
    /\ script = "text-to-sql"
    /\ pc \in {"idle", "rerun"}
    /\ ~resolve_openai_api_key(env, secrets).stopped
    /\ StartRun(NoTrigger, NoRemote, init_messages(session_keys, messages))
    /\ shown_error' = None
    /\ api_calls' = {"OpenAI"}
    /\ session_keys' = session_keys \cup {"messages"}
    /\ messages' = init_messages(session_keys, messages)
    /\ pc' = "idle"
    /\ UNCHANGED <<config, app_state>>

\* lines 135-163 with the reset button pressed: clear, then st.rerun()
ResetRun ==
    /\ script = "text-to-sql"
    /\ pc = "idle"
    /\ ~resolve_openai_api_key(env, secrets).stopped
    /\ StartRun([kind |-> "reset", prompt |-> None], NoRemote,
                init_messages(session_keys, messages))
    /\ shown_error' = None
    /\ api_calls' = {"OpenAI"}
    /\ session_keys' = session_keys \cup {"messages"}
    /\ messages' = <<>>
    /\ pc' = "rerun"
    /\ UNCHANGED <<config, app_state>>

\* lines 135-170 with a prompt submitted: the user message is appended
PromptRun ==
    /\ script = "text-to-sql"
    /\ pc = "idle"
    /\ ~resolve_openai_api_key(env, secrets).stopped
    /\ Len(messages) < 2 * MaxExchanges
    /\ \E p \in Prompts, r \in RemoteOutcomes :
          /\ StartRun([kind |-> "prompt", prompt |-> p], r,
                      init_messages(session_keys, messages))
          /\ messages' = Append(init_messages(session_keys, messages),
                                Message("user", p))
    /\ shown_error' = None
    /\ api_calls' = {"OpenAI"}
    /\ session_keys' = session_keys \cup {"messages"}
    /\ pc' = "call_model"
    /\ UNCHANGED <<config, app_state>>

\* lines 172-199: the window, call_model, and the except clause
CallModelStep ==
    /\ pc = "call_model"
    /\ LET history == window(messages)
           res == call_model(history, trigger.prompt, system_prompt,
                             vector_store_ids, remote)
       IN  /\ prior_messages' = history
           /\ conversation' = res.conversation
           /\ sent' = res.sent
           /\ exc' = res.exc
           /\ answer' = IF res.exc # <<>> THEN error_answer(res.exc[1])
                        ELSE res.answer
           /\ api_calls' = IF res.sent # <<>>
                           THEN api_calls \cup {"responses.create"}
                           ELSE api_calls
    /\ pc' = "append_answer"
    /\ UNCHANGED <<config, session_keys, messages, trigger, remote, before,
                   shown_error, escaped, app_state>>

\* lines 201-205
AppendAssistant_SkipOnError ==
    /\ pc = "append_answer"
    /\ answer' = final_answer(answer)
    /\ messages' = IF exc # <<>> THEN messages
                   ELSE Append(messages, Message("assistant", final_answer(answer)))
    /\ pc' = "idle"
    /\ UNCHANGED <<config, session_keys, trigger, remote, before,
                   prior_messages, conversation, sent, exc, api_calls,
                   shown_error, escaped, app_state>>

AppendAssistant ==
    /\ pc = "append_answer"
    /\ answer' = final_answer(answer)
    /\ messages' = Append(messages, Message("assistant", final_answer(answer)))
    /\ pc' = "idle"
    /\ UNCHANGED <<config, session_keys, trigger, remote, before,
                   prior_messages, conversation, sent, exc, api_calls,
                   shown_error, escaped, app_state>>

----------------------------------------------------------------------------
(* app.py: the module-level script *)

SomethingWrong == "(!) Something went wrong -- try again."

\* lines 6-13: the same resolution as resolve_openai_api_key, inline
app_api_key(e, s) ==
    LET api_key == IF ~Truthy(e) /\ s # None THEN s ELSE e
    IN  [key |-> api_key, stopped |-> ~Truthy(api_key)]

\* lines 27-29: one thread per session, created on the first run that gets there
app_thread(tid) == IF tid = None THEN "thread_1" ELSE tid

app_thread_calls(tid) ==
    IF tid = None THEN {"OpenAI", "beta.threads.create"} ELSE {"OpenAI"}

\* lines 62-66
app_answer(r) == IF r.kind = "completed" THEN r.text ELSE SomethingWrong

\* lines 6-13: no key; st.error, then st.stop() ends the run
AppHalt ==
    /\ script = "app"
    /\ pc = "idle"
    /\ app_api_key(env, secrets).stopped
    /\ \E tr \in Triggers \ {[kind |-> "reset", prompt |-> None]} :
          StartRun(tr, NoRemote, app_messages)
    /\ shown_error' = MissingKeyError
    /\ api_calls' = {}
    /\ pc' = "idle"
    /\ UNCHANGED <<config, session_keys, messages, prior_messages, app_state>>

\* lines 6-43 with no prompt submitted
AppPlainRun ==
    /\ script = "app"
    /\ pc = "idle"
    /\ ~app_api_key(env, secrets).stopped
    /\ StartRun(NoTrigger, NoRemote, app_messages)
    /\ shown_error' = None
    /\ api_calls' = app_thread_calls(thread_id)
    /\ thread_id' = app_thread(thread_id)
    /\ session_keys' = session_keys \cup {"thread_id", "messages"}
    /\ pc' = "idle"
    /\ UNCHANGED <<config, messages, app_messages>>

\* lines 6-46 with a prompt submitted: the user message is appended
AppPromptRun ==
    /\ script = "app"
    /\ pc = "idle"
    /\ ~app_api_key(env, secrets).stopped
    /\ Len(app_messages) < 2 * MaxAppExchanges
    /\ \E p \in Prompts, r \in AppOutcomes :
          /\ StartRun([kind |-> "prompt", prompt |-> p], r, app_messages)
          /\ app_messages' = Append(app_messages, Message("user", p))
    /\ shown_error' = None
    /\ api_calls' = app_thread_calls(thread_id)
    /\ thread_id' = app_thread(thread_id)
    /\ session_keys' = session_keys \cup {"thread_id", "messages"}
    /\ pc' = "app_call"
    /\ UNCHANGED <<config, messages>>

\* lines 49-70: no try around the calls, so an exception ends the run there
AppAssistantCall ==
    /\ pc = "app_call"
    /\ api_calls' = api_calls \cup {"beta.threads.messages.create"}
    /\ IF remote.kind = "raise"
       THEN /\ escaped' = TRUE
            /\ exc' = <<remote.text>>
            /\ UNCHANGED <<answer, app_messages>>
       ELSE /\ answer' = app_answer(remote)
            /\ app_messages' =
                  Append(app_messages, Message("assistant", app_answer(remote)))
            /\ UNCHANGED <<escaped, exc>>
    /\ pc' = "idle"
    /\ UNCHANGED <<config, session_keys, messages, trigger, remote, before,
                   prior_messages, conversation, sent, shown_error, thread_id>>

----------------------------------------------------------------------------

Next ==
    \/ Halt
    \/ PlainRun
    \/ ResetRun
    \/ PromptRun
    \/ CallModelStep
    \/ AppendAssistant
    \/ AppHalt
    \/ AppPlainRun
    \/ AppPromptRun
    \/ AppAssistantCall

Spec == Init /\ [][Next]_vars

----------------------------------------------------------------------------
(* Shorthands of the properties *)

\* the script is text-to-sql.py and its latest run got past the key check
\* with a prompt submitted
InExchange ==
    script = "text-to-sql" /\ trigger.kind = "prompt" /\ shown_error = None

\* that run has ended
ExchangeDone == InExchange /\ pc = "idle"

\* that run has left the try statement of lines 172-199
AfterTry == InExchange /\ pc \in {"append_answer", "idle"}

UserMessage == [role |-> "user", content |-> trigger.prompt]

KeyUnresolved == env \in {None, ""} /\ secrets \in {None, ""}

ErrorPlaceholders ==
    {ErrorPrefix \o d : d \in {"Connection error.", UnboundToolsError}}

----------------------------------------------------------------------------
(* C1 *)

\* C1: whenever text-to-sql.py is at rest the transcript has even length, and
\* a run that processed a prompt has added the user message and exactly one
\* assistant message after it, whether the remote call succeeded, returned
\* no text or raised.
C1_EvenAtRest ==
    pc = "idle" =>
        /\ Len(messages) % 2 = 0
        /\ ExchangeDone =>
              /\ Len(messages) = Len(before) + 2
              /\ SubSeq(messages, 1, Len(before)) = before
              /\ messages[Len(before) + 1] = UserMessage
              /\ messages[Len(before) + 2].role = "assistant"

C1_Witness ==
    /\ ExchangeDone
    /\ exc # <<>>
    /\ Len(messages) >= 4
    /\ \E i \in 1..Len(before) : before[i].content = NoResponse

----------------------------------------------------------------------------
(* C2 *)

\* C2: for every prompt p and every configuration of the vector stores, empty
\* or not, when the remote create-response call answers with a non-empty
\* output_text t the exchange adds exactly {user, p} and {assistant, t}.
C2_TextAnswerAppended ==
    (ExchangeDone /\ remote.kind = "text" /\ Truthy(remote.text)) =>
        messages = before \o <<UserMessage,
                               [role |-> "assistant", content |-> remote.text]>>

----------------------------------------------------------------------------
(* C3 *)

\* C3: when the try block of an exchange raises, nothing escapes main, the
\* exchange ends with the assistant message "(!) Error calling OpenAI: " plus
\* the exception's text as the last entry, and the session takes the next
\* prompt: an exchange on top of a transcript that ends in an error
\* placeholder is appended after it like any other.
C3_ErrorBecomesPlaceholder ==
    /\ (script = "text-to-sql" /\ exc # <<>>) =>
          /\ ~escaped
          /\ pc \in {"append_answer", "idle"}
          /\ pc = "idle" =>
                /\ messages = before \o
                      <<UserMessage,
                        [role |-> "assistant",
                         content |-> "(!) Error calling OpenAI: " \o exc[1]]>>
                /\ Len(messages) < 2 * MaxExchanges => ENABLED PromptRun
    /\ (ExchangeDone /\ Len(before) > 0
            /\ before[Len(before)].content \in ErrorPlaceholders) =>
          /\ Len(messages) = Len(before) + 2
          /\ SubSeq(messages, 1, Len(before)) = before
          /\ (sent # <<>> /\ remote.kind = "text" /\ Truthy(remote.text)) =>
                messages[Len(messages)].content = remote.text

C3_Witness ==
    /\ ExchangeDone
    /\ remote.kind = "raise"
    /\ sent # <<>>
    /\ exc = <<"Connection error.">>
    /\ Len(before) > 0
    /\ before[Len(before)].content = ErrorPrefix \o "Connection error."

----------------------------------------------------------------------------
(* C4 *)

\* C4: once call_model has run, one request was handed to the remote call; it
\* carries the file_search declaration for the configured stores iff there
\* are stores, has no tools field at all when there are none, and no
\* unassigned tools name was read.
C4_RequestSentToolsIffStores ==
    AfterTry =>
        /\ Len(sent) = 1
        /\ ("tools" \in DOMAIN sent[1]) <=> (vector_store_ids # <<>>)
        /\ vector_store_ids # <<>> =>
              sent[1].tools = <<[type |-> "file_search",
                                 vector_store_ids |-> vector_store_ids]>>
        /\ exc # <<UnboundToolsError>>

----------------------------------------------------------------------------
(* C5 *)

\* C5: with the unanswered user message at the tail of the transcript, the
\* history given to call_model is the last min(6, len - 1) entries before
\* that message, in their order, so at most 6 and never the tail itself, and
\* taking it leaves the transcript as it was.
C5_WindowIsTailBeforeNewest ==
    (script = "text-to-sql" /\ pc = "append_answer") =>
        LET n == Len(messages)
            k == Min(6, n - 1)
        IN  /\ messages = Append(before, UserMessage)
            /\ Len(prior_messages) = k
            /\ Len(prior_messages) <= 6
            /\ \A i \in 1..k : prior_messages[i] = messages[n - 1 - k + i]

C5_Witness ==
    /\ script = "text-to-sql"
    /\ pc = "append_answer"
    /\ Len(messages) = 9
    /\ Len(prior_messages) = 6
    /\ prior_messages[1] # messages[1]
    /\ messages[9] = messages[1]

----------------------------------------------------------------------------
(* C6 *)

\* C6: the conversation call_model builds is: a system block iff the system
\* prompt is non-empty; one block per history message, in order, with its
\* role, typed output_text for assistant and input_text otherwise; the prompt
\* as a user input_text block; and, iff there are vector stores, one user
\* input_text block with the retrieval hint, last.
C6_ConversationOrder ==
    (script = "text-to-sql" /\ pc = "append_answer") =>
        LET c == conversation
            h == prior_messages
            s == IF system_prompt # "" THEN 1 ELSE 0
            v == IF vector_store_ids # <<>> THEN 1 ELSE 0
        IN  /\ Len(c) = s + Len(h) + 1 + v
            /\ s = 1 =>
                  c[1] = [role |-> "system",
                          content |-> <<[type |-> "input_text",
                                         text |-> system_prompt]>>]
            /\ \A i \in 1..Len(h) :
                  /\ c[s + i].role = h[i].role
                  /\ c[s + i].content =
                        <<[type |-> IF h[i].role = "assistant"
                                    THEN "output_text" ELSE "input_text",
                           text |-> h[i].content]>>
            /\ c[s + Len(h) + 1] =
                  [role |-> "user",
                   content |-> <<[type |-> "input_text",
                                  text |-> trigger.prompt]>>]
            /\ v = 1 =>
                  c[Len(c)] = [role |-> "user",
                               content |-> <<[type |-> "input_text",
                                              text |-> RetrievalHint]>>]
            /\ Cardinality({i \in 1..Len(c) : c[i].role = "system"}) = s
            /\ Cardinality({i \in 1..Len(c) :
                               c[i].content[1].text = RetrievalHint}) = v

C6_Witness ==
    /\ script = "text-to-sql"
    /\ pc = "append_answer"
    /\ system_prompt # ""
    /\ vector_store_ids # <<>>
    /\ Len(prior_messages) = 6
    /\ Len(conversation) = 9

----------------------------------------------------------------------------
(* C7 *)

\* C7: when OPENAI_API_KEY is missing or empty in the environment and in the
\* secrets, a run shows the configuration error and stops: no client is
\* built, no thread is created, no request is sent, and the transcript is as
\* it was when the run started.
C7_NoCallWithoutKey ==
    KeyUnresolved =>
        /\ api_calls = {}
        /\ sent = <<>>
        /\ thread_id = None
        /\ pc = "idle"
        /\ messages = before
        /\ messages = <<>>
        /\ app_messages = <<>>
        /\ trigger # NoTrigger => shown_error = MissingKeyError

C7_Witness ==
    /\ script = "text-to-sql"
    /\ KeyUnresolved
    /\ secrets = ""
    /\ trigger.kind = "prompt"
    /\ shown_error = MissingKeyError

----------------------------------------------------------------------------
(* C8 *)

\* C8: a step changes the transcript only by appending one message at the
\* tail, which happens only in a run that got a prompt, or by emptying it,
\* which happens only in a run where the reset button was pressed.
C8_AppendOrReset ==
    [][\/ messages' = messages
       \/ /\ Len(messages') = Len(messages) + 1
          /\ SubSeq(messages', 1, Len(messages)) = messages
          /\ trigger'.kind = "prompt"
       \/ /\ messages' = <<>>
          /\ trigger'.kind = "reset"]_vars

C8_Witness ==
    /\ trigger.kind = "reset"
    /\ pc = "rerun"
    /\ Len(before) >= 4
    /\ messages = <<>>

----------------------------------------------------------------------------
(* C9 *)

\* C9: when the remote call returns without text (output_text "", None or
\* missing), nothing is raised and the exchange adds the user message and the
\* assistant message "(!) No response received, please try again." to the
\* transcript it found.
C9_NoTextPlaceholder ==
    (ExchangeDone /\ sent # <<>> /\ remote.kind \in {"text", "missing"}
        /\ (remote.kind = "text" => remote.text \in {"", None})) =>
        /\ exc = <<>>
        /\ ~escaped
        /\ messages = before \o
              <<UserMessage,
                [role |-> "assistant",
                 content |-> "(!) No response received, please try again."]>>
        /\ messages[Len(messages)].content \notin ErrorPlaceholders

C9_Witness ==
    /\ ExchangeDone
    /\ sent # <<>>
    /\ remote.kind = "missing"
    /\ Len(before) >= 2
    /\ messages[Len(messages)].content = NoResponse

----------------------------------------------------------------------------
(* C10 *)

Alternating(ms) ==
    \A i \in 1..Len(ms) :
        ms[i].role = (IF i % 2 = 1 THEN "user" ELSE "assistant")

\* C10: at rest the transcript alternates user, assistant, ... from a user
\* message and holds neither the system prompt nor the retrieval hint; so the
\* window given to call_model has even length, starts with a user message and
\* ends with an assistant message when it is not empty, and an error or
\* no-response placeholder in it is sent as an assistant output_text block.
C10_AlternatingTranscript ==
    /\ pc = "idle" =>
          /\ Alternating(messages)
          /\ \A i \in 1..Len(messages) :
                /\ messages[i].role # "system"
                /\ messages[i].content # RetrievalHint
                /\ Truthy(system_prompt) => messages[i].content # system_prompt
    /\ (script = "text-to-sql" /\ pc = "append_answer") =>
          LET h == prior_messages
              s == Len(conversation) - Len(h) - 1
                      - (IF vector_store_ids # <<>> THEN 1 ELSE 0)
          IN  /\ Len(h) % 2 = 0
              /\ Len(h) > 0 =>
                    h[1].role = "user" /\ h[Len(h)].role = "assistant"
              /\ \A i \in 1..Len(h) :
                    h[i].content \in ErrorPlaceholders \cup {NoResponse} =>
                        conversation[s + i] =
                            [role |-> "assistant",
                             content |-> <<[type |-> "output_text",
                                            text |-> h[i].content]>>]

C10_Witness ==
    /\ script = "text-to-sql"
    /\ pc = "append_answer"
    /\ Len(messages) = 9
    /\ Len(prior_messages) = 6
    /\ \E i \in 1..6 : prior_messages[i].content = NoResponse
    /\ \E i \in 1..6 :
          prior_messages[i].content = ErrorPrefix \o "Connection error."

====
